---- MODULE Spec2Model ----
(***************************************************************************)
(* A model of package mesoslog (src/mesoslog/client.go): the resolution of *)
(* a task identifier against the master state, the location of a task's    *)
(* sandbox, and the concurrent tail-and-merge engine (asyncTail, merge,    *)
(* TailLogToChannel, TailLog).                                             *)
(*                                                                         *)
(* Go strings are sequences of one-character strings, indexed from 0 as in *)
(* Go by the helpers below.  Unbuffered channels are rendezvous: a sender  *)
(* blocked in a send is a process whose pc says so, and the receiver's     *)
(* action completes the send and moves the sender on.                      *)
(***************************************************************************)
EXTENDS Integers, Sequences, FiniteSets, TLC

\* ------------------------------------------------------------ constants
PageLength == 5000
MinContent == 5

\* ------------------------------------------------------------ bounds
\* Largest payload a paginated read returns in the model (at most PageLength).
MaxLen == 6
\* Longest payload handed to decorateLog called on its own.
MaxData == 4
\* Tailers stop receiving data once their offset would pass this value.
MaxOffset == 10
\* Failed downloads reported on standard output.
MaxReports == 1
\* Frameworks of a master state.
NumFrameworks == 2
\* Sources of a merge called on its own, and chunks each of them sends.
MaxSources == 2
MaxEmit == 1

\* ------------------------------------------------------------ strings
\* strings.Index(s, c) for a one-character separator c: 0-based, -1 if absent.
Index(s, c) ==
  IF \E i \in 1..Len(s) : s[i] = c
  THEN (CHOOSE i \in 1..Len(s) : s[i] = c /\ \A j \in 1..(i - 1) : s[j] # c) - 1
  ELSE -1

\* Go's s[lo:hi] with 0-based bounds; the caller checks the bounds.
Slice(s, lo, hi) == SubSeq(s, lo + 1, hi)

\* ------------------------------------------------------------ records
\* Identifiers used by the model's cluster states.
ID_A1 == <<"a", ".", "u", "-", "1">>
ID_A2 == <<"a", ".", "v", "-", "2">>
ID_NoDash == <<"a", ".", "w">>
ID_NoDot == <<"b">>
Name_A == <<"a">>
Name_B == <<"b">>
Name_None == <<"z">>

Pid_S1 == <<"s", "@", "h", ":", "5">>
Pid_S2 == <<"s", "@", "h">>
Pid_Bad == <<"s", "h", ":", "5">>

\* mstateSlave: ID, Hostname, Pid.
Slave_S1 == [ID |-> "S1", Hostname |-> <<"h", "1">>, Pid |-> Pid_S1]
Slave_S2 == [ID |-> "S2", Hostname |-> <<"h", "2">>, Pid |-> Pid_S2]
Slave_S3 == [ID |-> "S3", Hostname |-> <<"h", "3">>, Pid |-> Pid_Bad]
Slaves == <<Slave_S1, Slave_S2, Slave_S3>>

\* mstateTask as decoded from state.json; FrameworkID is the framework the
\* task is listed under, LastState is filled by findTask.
Task(id, name, slave, exec, stamps) ==
  [ID |-> id, Name |-> name, SlaveID |-> slave, FrameworkID |-> 0,
   ExecutorID |-> exec, Statuses |-> stamps, LastState |-> <<>>]

\* The task instances a cluster state of the model is built from.  T1 and T2
\* are two instances of application "a" on two nodes; T3 has an identifier
\* without separators that equals its name and runs on node S3; T4 shares
\* T3's name and has an identifier without a '-'.
T1 == Task(ID_A1, Name_A, "S1", <<>>, <<2>>)
T2 == Task(ID_A2, Name_A, "S2", <<"e">>, <<1, 2>>)
T3 == Task(ID_NoDot, Name_B, "S3", <<"e">>, <<>>)
T4 == Task(ID_NoDash, Name_B, "S1", <<"e">>, <<3>>)
Pool == <<T1, T2, T3, T4>>

Groups == {"active", "completed"}
Placements == {<<0, "absent">>} \cup ((1..NumFrameworks) \X Groups)

\* The tasks of Pool placed by pl in group g of framework k, in Pool order.
Placed(pl, k, g) ==
  LET idx == SelectSeq([i \in 1..Len(Pool) |-> i], LAMBDA i : pl[i] = <<k, g>>)
  IN  [j \in 1..Len(idx) |-> [Pool[idx[j]] EXCEPT !.FrameworkID = k]]

\* masterState: Frameworks (each with Tasks and CompletedTasks) and Slaves.
MkState(pl, slaves) ==
  [Frameworks |-> [k \in 1..NumFrameworks |->
                    [ID |-> k,
                     Tasks |-> Placed(pl, k, "active"),
                     CompletedTasks |-> Placed(pl, k, "completed")]],
   Slaves |-> slaves]

SlaveLists == {Slaves, SubSeq(Slaves, 1, 2)}
MasterStates ==
  {MkState(pl, sl) : pl \in [1..Len(Pool) -> Placements], sl \in SlaveLists}

Idents == {Name_A, Name_B, ID_A1, Name_None}
OptionSets == [SearchCompletedTasks : BOOLEAN, ShowLatestOnly : BOOLEAN]

\* ------------------------------------------------------------ TaskResolver
\* A resolver that compares the name only.
MatchesName(task, id) == task.Name = id

Matches(task, id) == task.Name = id \/ task.ID = id

\* The last status of a task, as an optional value: <<>> is Go's nil.
findTaskLastState(task) ==
  IF Len(task.Statuses) > 0 THEN <<task.Statuses[Len(task.Statuses)]>> ELSE <<>>

UpdateLastState(task, s) == [task EXCEPT !.LastState = s]

\* The tasks of one list that match id, in list order, LastState filled.
MatchIn(list, id) ==
  LET m == SelectSeq(list, LAMBDA t : Matches(t, id))
  IN  [i \in 1..Len(m) |-> UpdateLastState(m[i], findTaskLastState(m[i]))]

RECURSIVE findTaskFrom(_, _, _, _)
findTaskFrom(fws, id, k, acc) ==
  IF k > Len(fws) THEN acc
  ELSE findTaskFrom(fws, id, k + 1,
         [Tasks |-> acc.Tasks \o MatchIn(fws[k].Tasks, id),
          CompletedTasks |-> acc.CompletedTasks \o MatchIn(fws[k].CompletedTasks, id)])

findTask(state, id) ==
  findTaskFrom(state.Frameworks, id, 1, [Tasks |-> <<>>, CompletedTasks |-> <<>>])

\* ------------------------------------------------------------ GetAppNames
\* The empty map, and m[name]++ on a map from names to counts.
NoApps == [n \in {} |-> 0]

Increment(m, name) ==
  [n \in DOMAIN m \cup {name} |->
     IF n = name THEN (IF name \in DOMAIN m THEN m[name] + 1 ELSE 1) ELSE m[n]]

RECURSIVE countTasks(_, _, _)
countTasks(tasks, m, i) ==
  IF i > Len(tasks) THEN m
  ELSE countTasks(tasks, Increment(m, tasks[i].Name), i + 1)

\* A findApps that counts the completed tasks of a framework as well.
RECURSIVE findAppsWithCompleted(_, _, _)
findAppsWithCompleted(fws, m, k) ==
  IF k > Len(fws) THEN m
  ELSE findAppsWithCompleted(fws,
         countTasks(fws[k].CompletedTasks, countTasks(fws[k].Tasks, m, 1), 1), k + 1)

RECURSIVE findAppsFrom(_, _, _)
findAppsFrom(fws, m, k) ==
  IF k > Len(fws) THEN m
  ELSE findAppsFrom(fws, countTasks(fws[k].Tasks, m, 1), k + 1)

findApps(state) == findAppsFrom(state.Frameworks, NoApps, 1)

\* GetAppNames: the map, or the error when it is empty.
GetAppNames(state) ==
  LET apps == findApps(state) IN
  IF DOMAIN apps = {} THEN [err |-> "NotFound", apps |-> NoApps]
  ELSE [err |-> "", apps |-> apps]

\* ------------------------------------------------------------ SandboxLocator
NoSlave == [ID |-> "", Hostname |-> <<>>, Pid |-> <<>>]

\* The first slave with the given ID; found is FALSE for Go's nil.
findSlave(state, slaveID) ==
  LET hit == SelectSeq(state.Slaves, LAMBDA s : s.ID = slaveID)
  IN  IF Len(hit) > 0 THEN [found |-> TRUE, slave |-> hit[1]]
      ELSE [found |-> FALSE, slave |-> NoSlave]

\* The port of "<host>[:<port>[:...]]": strings.Split(s, ":")[1], or "80".
PortOf(s) ==
  LET c == Index(s, ":") IN
  IF c = -1 THEN <<"8", "0">>
  ELSE LET rest == Slice(s, c + 1, Len(s))
           c2 == Index(rest, ":")
       IN  IF c2 = -1 THEN rest ELSE Slice(rest, 0, c2)

\* A constructSlaveURL that takes a locator without '@' as the address.
constructSlaveURLLenient(slave) ==
  LET at == Index(slave.Pid, "@")
      host == slave.Hostname \o <<":">> \o PortOf(Slice(slave.Pid, at + 1, Len(slave.Pid)))
  IN  [err |-> "", Host |-> host,
       Opaque |-> <<"/", "/">> \o host \o <<"/">> \o Slice(slave.Pid, 0, IF at = -1 THEN 0 ELSE at)
                  \o <<"/", "state.json">>]

constructSlaveURL(slave) ==
  LET at == Index(slave.Pid, "@") IN
  IF at = -1 THEN [err |-> "MalformedAddress", Host |-> <<>>, Opaque |-> <<>>]
  ELSE LET slaveName == Slice(slave.Pid, 0, at)
           host == slave.Hostname \o <<":">> \o PortOf(Slice(slave.Pid, at + 1, Len(slave.Pid)))
       IN  [err |-> "", Host |-> host,
            Opaque |-> <<"/", "/">> \o host \o <<"/">> \o slaveName \o <<"/", "state.json">>]

\* slaveState documents a node may serve: one framework entry with active
\* and completed executors.
Exec(id) == [ID |-> id, Directory |-> <<"/", "d">> \o id]
ExecLists == {<<>>, <<Exec(<<"x">>), Exec(ID_A1), Exec(<<"e">>), Exec(ID_NoDash)>>}
\* The sandbox of a completed executor is another directory than that of a
\* running one.
DoneExec(id) == [ID |-> id, Directory |-> <<"/", "c">> \o id]
DoneLists == {<<>>, <<DoneExec(<<"x">>), DoneExec(ID_A1), DoneExec(<<"e">>),
                      DoneExec(ID_NoDash)>>}
SlaveDocs ==
  {[Frameworks |-> <<[ID |-> f, Executors |-> ex, CompletedExecutors |-> cx]>>] :
     f \in 1..NumFrameworks, ex \in ExecLists, cx \in DoneLists}

\* What getSlaveState's request can come back with.
NoFetch == [err |-> "TransportError", doc |-> [Frameworks |-> <<>>]]
FetchResults == {NoFetch} \cup {[err |-> "", doc |-> d] : d \in SlaveDocs}

\* A findDirectory that looks at the executors of every framework.
RECURSIVE findDirectoryAnyFramework(_, _, _, _)
findDirectoryAnyFramework(fws, task, completedTasks, k) ==
  IF k > Len(fws) THEN <<>>
  ELSE LET executors == IF completedTasks THEN fws[k].CompletedExecutors
                        ELSE fws[k].Executors
           hit == SelectSeq(executors,
                    LAMBDA e : e.ID = task.ExecutorID \/ e.ID = task.ID)
       IN  IF Len(hit) > 0 THEN hit[1].Directory
           ELSE findDirectoryAnyFramework(fws, task, completedTasks, k + 1)

RECURSIVE findDirectoryFrom(_, _, _, _)
findDirectoryFrom(fws, task, completedTasks, k) ==
  IF k > Len(fws) THEN <<>>
  ELSE IF fws[k].ID # task.FrameworkID
       THEN findDirectoryFrom(fws, task, completedTasks, k + 1)
       ELSE LET executors == IF completedTasks THEN fws[k].CompletedExecutors
                             ELSE fws[k].Executors
                hit == SelectSeq(executors,
                         LAMBDA e : e.ID = task.ExecutorID \/ e.ID = task.ID)
            IN  IF Len(hit) > 0 THEN hit[1].Directory
                ELSE findDirectoryFrom(fws, task, completedTasks, k + 1)

findDirectory(sstate, task, completedTasks) ==
  findDirectoryFrom(sstate.Frameworks, task, completedTasks, 1)

\* getSlaveInfo up to the request for the node's state document: the error
\* it returns before any request, or the URL it requests.
slaveURLFor(state, task) ==
  LET s == findSlave(state, task.SlaveID) IN
  IF ~s.found THEN [err |-> "NodeNotFound", slave |-> NoSlave, Host |-> <<>>]
  ELSE LET u == constructSlaveURL(s.slave)
       IN  [err |-> u.err, slave |-> s.slave, Host |-> u.Host]

\* The outcomes of getSlaveState's request: it is made only when a URL was
\* constructed.
Fetches(pre) == IF pre.err = "" THEN FetchResults ELSE {NoFetch}

\* Whether download fails: it is called only when getSlaveInfo succeeded.
Downloaded(info) == IF info.err = "" THEN BOOLEAN ELSE {FALSE}

\* getSlaveInfo given what the request for the node's state came back with.
getSlaveInfo(state, options, task, fetch) ==
  LET pre == slaveURLFor(state, task) IN
  IF pre.err # "" THEN [err |-> pre.err, Slave |-> NoSlave, Directory |-> <<>>]
  ELSE IF fetch.err # "" THEN [err |-> fetch.err, Slave |-> NoSlave, Directory |-> <<>>]
  ELSE LET directory == findDirectory(fetch.doc, task, options.SearchCompletedTasks)
       IN  IF directory = <<>>
           THEN [err |-> "DirectoryNotFound", Slave |-> NoSlave, Directory |-> <<>>]
           ELSE [err |-> "", Slave |-> pre.slave, Directory |-> directory]

\* A decorateLog that faults only on an id without '.'.
decorateLogPanicsNoDot(name) == Index(name, ".") = -1

\* decorateLog's slicing faults (index out of range) exactly when the task
\* id has no '.', or the part after its first '.' has no '-'.
decorateLogPanics(name) ==
  LET taskIdx == Index(name, ".") IN
  IF taskIdx = -1 THEN TRUE
  ELSE Index(Slice(name, taskIdx + 1, Len(name)), "-") = -1

\* strings.Split(data, "\n"): the pieces between the newlines.
RECURSIVE SplitLines(_)
SplitLines(data) ==
  LET nl == Index(data, "\n") IN
  IF nl = -1 THEN <<data>>
  ELSE <<Slice(data, 0, nl)>> \o SplitLines(Slice(data, nl + 1, Len(data)))

\* A decoration loop that writes the empty lines too.
RECURSIVE writeLinesAll(_, _, _)
writeLinesAll(lines, dec, k) ==
  IF k > Len(lines) THEN <<>>
  ELSE <<"[">> \o dec \o <<"]", " ">> \o lines[k] \o <<"\n">>
       \o writeLinesAll(lines, dec, k + 1)

\* Lines 273-277: "[dec] line\n" for every line that is not empty.
RECURSIVE writeLines(_, _, _)
writeLines(lines, dec, k) ==
  IF k > Len(lines) THEN <<>>
  ELSE (IF Len(lines[k]) > 0
        THEN <<"[">> \o dec \o <<"]", " ">> \o lines[k] \o <<"\n">>
        ELSE <<>>)
       \o writeLines(lines, dec, k + 1)

\* decorateLog(name, data): the decorated text, or the fault of a slice
\* expression whose upper bound is -1.
decorateLog(name, data) ==
  LET lines == SplitLines(data)
      taskIdx == Index(name, ".")
  IN  IF taskIdx = -1 THEN [panic |-> TRUE, out |-> <<>>]
      ELSE LET taskId == Slice(name, taskIdx + 1, Len(name))
               dash == Index(taskId, "-")
           IN  IF dash = -1 THEN [panic |-> TRUE, out |-> <<>>]
               ELSE [panic |-> FALSE,
                     out |-> writeLines(lines,
                               Slice(name, 0, taskIdx) \o <<".">> \o Slice(taskId, 0, dash),
                               1)]

\* ------------------------------------------------------------ state
VARIABLES
  State,        \* MesosClient.State: the master state fetched at construction
  appID,        \* the identifier the caller asks for
  Options,      \* MesosClient.Options
  caller,       \* who runs the call: "TailLog", or "direct" (a caller of its own)
  tlcPc,        \* TailLogToChannel: start, resolve, merge, select, send, returned
  tlcTasks,     \* TailLogToChannel: tasks, the matching active instances
  tlcIdx,       \* TailLogToChannel: position of the resolution loop in tasks
  tlcResult,    \* TailLogToChannel: "" while running, then "nil" or the error
  msg,          \* TailLogToChannel: the chunk taken from output, not yet sent
  fetched,      \* hosts whose state document getSlaveState has requested
  tailers,      \* one record per asyncTail goroutine (or merge source)
  printed,      \* error lines the tailers have written to standard output
  fwd,          \* merge: one output goroutine per source
  wg,           \* merge: the WaitGroup counter
  outClosed,    \* merge: whether out has been closed
  reading,      \* the consumer still receives from target
  signal,       \* the stop signal on done: none, pending, received
  delivered,    \* per source, the chunks (off, len) the consumer received
  tlPc,         \* TailLog: range, returned
  gl,           \* GetLog: its position, tasks, result and error
  probe,        \* a function of the package called on its own: arguments, result
  crashed       \* an unrecovered panic has ended the process

clientVars == <<State, appID, Options, caller>>
inputVars == <<State, appID, Options, caller, probe>>
callVars == <<tlcPc, tlcTasks, tlcIdx, tlcResult, msg, fetched>>
tailVars == <<tailers, printed>>
mergeVars == <<fwd, wg, outClosed>>
consumerVars == <<reading, signal, delivered, tlPc>>

vars == <<inputVars, callVars, tailVars, mergeVars, consumerVars, gl, crashed>>

NoCall == [fn |-> "none"]

NoChunk == [src |-> 0, off |-> -1, len |-> 0]
\* The zero value a receive from a closed channel yields (the empty string).
ZeroChunk == [src |-> 0, off |-> 0, len |-> 0]

\* target is closed by no code of the package.
targetClosed == FALSE

\* The consumer's record of the chunks it received.
Deliver(d, m) ==
  IF m.src \in 1..Len(d)
  THEN [d EXCEPT ![m.src] = Append(@, [off |-> m.off, len |-> m.len])]
  ELSE d

\* ------------------------------------------------------------ LogTailer
\* What one download of read.json can come back with: a transport error, a
\* body that is not JSON, or a body whose data field holds n bytes.
Downloads ==
  {[err |-> TRUE, json |-> FALSE, n |-> 0], [err |-> FALSE, json |-> FALSE, n |-> 0]}
  \cup {[err |-> FALSE, json |-> TRUE, n |-> n] : n \in (MinContent - 1)..MaxLen}

\* len(rd.Data) after json.Unmarshal, whose error is dropped: a body that
\* does not parse leaves rd at its zero value.
rdLen(d) == IF d.json THEN d.n ELSE 0

\* The request asyncTail builds from TailURIFmt.
TailRequest(t) ==
  [host |-> t.Host, path |-> t.Directory \o <<"/", t.logtype>>,
   offset |-> t.offset, length |-> PageLength]

NoRequest == [host |-> <<>>, path |-> <<>>, offset |-> -1, length |-> 0]
NoDownload == [err |-> FALSE, json |-> FALSE, n |-> -1]

\* asyncTail: the goroutine started for one task, at offset 0.  url, resp
\* and rd are locals of one loop iteration.
asyncTail(task, info, lt) ==
  [kind |-> "tailer", ID |-> task.ID, Host |-> info.Slave.Hostname,
   Directory |-> info.Directory, logtype |-> lt,
   pc |-> "poll", offset |-> 0, chunk |-> NoChunk,
   req |-> NoRequest, resp |-> NoDownload, left |-> 0, closes |-> FALSE]

\* One iteration of the tailer loop whose download fails: the error is
\* printed and the loop continues at once.
PollFail(i) ==
  /\ ~crashed
  /\ i \in 1..Len(tailers)
  /\ tailers[i].kind = "tailer"
  /\ tailers[i].pc = "poll"
  /\ printed < MaxReports
  /\ printed' = printed + 1
  /\ UNCHANGED <<inputVars, callVars, tailers, mergeVars, consumerVars, crashed, gl>>

\* A tailer that adds the length of the data to its offset before it looks
\* at the length.
afterReadAdvancing(t, i, d) ==
  LET n == rdLen(d)
      asked == [t EXCEPT !.req = TailRequest(t), !.resp = d, !.offset = @ + n]
  IN  IF n < MinContent THEN [asked EXCEPT !.pc = "sleep"]
      ELSE IF decorateLogPanics(t.ID) THEN [asked EXCEPT !.pc = "panic"]
           ELSE [asked EXCEPT !.pc = "emit",
                              !.chunk = [src |-> i, off |-> t.offset, len |-> n]]

\* What the tailer does with a download that returned a body d: sleep on
\* fewer than MinContent bytes of data, otherwise advance the offset and
\* block sending the decorated payload (decorateLog runs first and may panic).
afterRead(t, i, d) ==
  LET n == rdLen(d)
      asked == [t EXCEPT !.req = TailRequest(t), !.resp = d]
  IN  IF n < MinContent THEN [asked EXCEPT !.pc = "sleep"]
      ELSE IF decorateLogPanics(t.ID)
           THEN [asked EXCEPT !.pc = "panic", !.offset = @ + n]
           ELSE [asked EXCEPT !.pc = "emit", !.offset = @ + n,
                              !.chunk = [src |-> i, off |-> t.offset, len |-> n]]

PollRead(i) ==
  /\ ~crashed
  /\ i \in 1..Len(tailers)
  /\ tailers[i].kind = "tailer"
  /\ tailers[i].pc = "poll"
  /\ \E d \in Downloads :
       /\ ~d.err
       /\ tailers[i].offset + rdLen(d) <= MaxOffset
       /\ tailers' = [tailers EXCEPT ![i] = afterRead(tailers[i], i, d)]
       /\ crashed' = (tailers'[i].pc = "panic")
  /\ UNCHANGED <<inputVars, callVars, printed, mergeVars, consumerVars, gl>>

\* A tailer whose offset is a local of one iteration.
nextIterationRewind(t) ==
  [t EXCEPT !.pc = "poll", !.offset = 0, !.chunk = NoChunk, !.req = NoRequest,
            !.resp = NoDownload]

\* The next iteration starts when time.Sleep returns or the send completes.
nextIteration(t) ==
  [t EXCEPT !.pc = "poll", !.chunk = NoChunk, !.req = NoRequest, !.resp = NoDownload]

Wake(i) ==
  /\ ~crashed
  /\ i \in 1..Len(tailers)
  /\ tailers[i].pc = "sleep"
  /\ tailers' = [tailers EXCEPT ![i] = nextIteration(tailers[i])]
  /\ UNCHANGED <<inputVars, callVars, printed, mergeVars, consumerVars, crashed, gl>>

\* ------------------------------------------------------------ StreamMerger
\* A merge that starts no output goroutine for its last channel.
mergeStartShort(n) == [i \in 1..(n - 1) |-> [pc |-> "recv", val |-> NoChunk]]

\* merge: one output goroutine per channel, the WaitGroup set to their number.
mergeStart(n) == [i \in 1..n |-> [pc |-> "recv", val |-> NoChunk]]

\* A sender that does not notice that its send has been received.
afterSendAgain(t) == t

\* Where a sender goes on once its send on its channel has been received.
afterSend(t) ==
  IF t.kind = "tailer" THEN nextIteration(t)
  ELSE [t EXCEPT !.pc = "ready", !.chunk = NoChunk]

\* An output goroutine's "for n := range c": it receives the value its
\* source is blocked sending, or finds c closed and calls wg.Done.
Forward(i) ==
  /\ ~crashed
  /\ i \in 1..Len(fwd)
  /\ fwd[i].pc = "recv"
  /\ tailers[i].pc \in {"emit", "closed"}
  /\ IF tailers[i].pc = "closed"
     THEN /\ fwd' = [fwd EXCEPT ![i].pc = "done"]
          /\ wg' = wg - 1
          /\ UNCHANGED tailers
     ELSE /\ fwd' = [fwd EXCEPT ![i] = [pc |-> "send", val |-> tailers[i].chunk]]
          /\ tailers' = [tailers EXCEPT ![i] = afterSend(tailers[i])]
          /\ UNCHANGED wg
  /\ UNCHANGED <<inputVars, callVars, printed, outClosed, consumerVars, crashed, gl>>

\* ------------------------------------------------------------ TailLogToChannel
\* Lines 130-134: the matching active tasks, or the error when there are none.
TLCStart ==
  /\ ~crashed
  /\ tlcPc = "start"
  /\ LET tasks == findTask(State, appID).Tasks IN
     IF Len(tasks) = 0
     THEN /\ tlcPc' = "returned"
          /\ tlcResult' = "NotFound"
          /\ UNCHANGED <<tlcTasks, tlcIdx>>
     ELSE /\ tlcPc' = "resolve"
          /\ tlcTasks' = tasks
          /\ tlcIdx' = 1
          /\ UNCHANGED tlcResult
  /\ UNCHANGED <<inputVars, msg, fetched, tailVars, mergeVars, consumerVars, crashed, gl>>

\* Lines 137-146, one iteration: getSlaveInfo for the next task, then
\* asyncTail for it; an error returns at once.
TLCResolve ==
  /\ ~crashed
  /\ tlcPc = "resolve"
  /\ LET task == tlcTasks[tlcIdx]
         pre == slaveURLFor(State, task)
     IN  \E fetch \in Fetches(pre) :
           LET info == getSlaveInfo(State, Options, task, fetch) IN
           /\ fetched' = IF pre.err = "" THEN fetched \cup {pre.Host} ELSE fetched
           /\ IF info.err # ""
              THEN /\ tlcPc' = "returned"
                   /\ tlcResult' = info.err
                   /\ UNCHANGED <<tlcIdx, tailers>>
              ELSE /\ tailers' = Append(tailers, asyncTail(task, info, "stdout"))
                   /\ tlcIdx' = tlcIdx + 1
                   /\ tlcPc' = IF tlcIdx = Len(tlcTasks) THEN "merge" ELSE "resolve"
                   /\ UNCHANGED tlcResult
  /\ UNCHANGED <<inputVars, tlcTasks, msg, printed, mergeVars, consumerVars, crashed, gl>>

\* Line 147: output := merge(chans...).
TLCMerge ==
  /\ ~crashed
  /\ tlcPc = "merge"
  /\ fwd' = mergeStart(Len(tailers))
  /\ wg' = Len(tailers)
  /\ delivered' = [i \in 1..Len(tailers) |-> <<>>]
  /\ tlcPc' = "select"
  /\ UNCHANGED <<inputVars, tlcTasks, tlcIdx, tlcResult, msg, fetched, tailVars,
                 outClosed, reading, signal, tlPc, crashed, gl>>

\* Line 150: the select takes a message from output (a closed output
\* yields the zero value).
LoopRecv ==
  /\ ~crashed
  /\ tlcPc = "select"
  /\ IF outClosed
     THEN /\ msg' = ZeroChunk
          /\ UNCHANGED fwd
     ELSE \E i \in 1..Len(fwd) :
            /\ fwd[i].pc = "send"
            /\ msg' = fwd[i].val
            /\ fwd' = [fwd EXCEPT ![i] = [pc |-> "recv", val |-> NoChunk]]
  /\ tlcPc' = "send"
  /\ UNCHANGED <<inputVars, tlcTasks, tlcIdx, tlcResult, fetched, tailVars, wg,
                 outClosed, consumerVars, crashed, gl>>

\* Lines 152-153: the select takes the stop signal and returns nil.
LoopDone ==
  /\ ~crashed
  /\ tlcPc = "select"
  /\ signal = "pending"
  /\ signal' = "received"
  /\ tlcPc' = "returned"
  /\ tlcResult' = "nil"
  /\ UNCHANGED <<inputVars, tlcTasks, tlcIdx, msg, fetched, tailVars, mergeVars,
                 reading, delivered, tlPc, crashed, gl>>

\* ------------------------------------------------------------ consumers
\* Line 151 completes when the consumer receives from target.
ConsumerRecv ==
  /\ ~crashed
  /\ caller = "direct"
  /\ reading
  /\ tlcPc = "send"
  /\ delivered' = Deliver(delivered, msg)
  /\ msg' = NoChunk
  /\ tlcPc' = "select"
  /\ UNCHANGED <<inputVars, tlcTasks, tlcIdx, tlcResult, fetched, tailVars, mergeVars,
                 reading, signal, tlPc, crashed, gl>>

\* The consumer signals cancellation: a send on done, pending until the
\* select of TailLogToChannel takes it.
SignalDone ==
  /\ ~crashed
  /\ caller = "direct"
  /\ signal = "none"
  /\ signal' = "pending"
  /\ UNCHANGED <<inputVars, callVars, tailVars, mergeVars, reading, delivered, tlPc,
                 crashed, gl>>

\* Having signalled, the consumer stops receiving from target.
StopReading ==
  /\ ~crashed
  /\ caller = "direct"
  /\ signal = "pending"
  /\ reading
  /\ reading' = FALSE
  /\ UNCHANGED <<inputVars, callVars, tailVars, mergeVars, signal, delivered, tlPc,
                 crashed, gl>>

\* TailLog, lines 169-173: "for msg := range target" prints each message
\* and returns nil once target is closed.
TailLogRange ==
  /\ ~crashed
  /\ caller = "TailLog"
  /\ tlPc = "range"
  /\ IF targetClosed
     THEN /\ tlPc' = "returned"
          /\ UNCHANGED <<delivered, msg, tlcPc>>
     ELSE /\ tlcPc = "send"
          /\ delivered' = Deliver(delivered, msg)
          /\ msg' = NoChunk
          /\ tlcPc' = "select"
          /\ UNCHANGED tlPc
  /\ UNCHANGED <<inputVars, tlcTasks, tlcIdx, tlcResult, fetched, tailVars, mergeVars,
                 reading, signal, crashed, gl>>

\* ------------------------------------------------------------ merge on its own
\* A source of merge that is no tailer: it sends the chunks it has left,
\* numbered from 0, and then closes its channel or leaves it open.
source(k, c) ==
  [kind |-> "source", ID |-> <<>>, Host |-> <<>>, Directory |-> <<>>,
   logtype |-> "", pc |-> "ready", offset |-> 0, chunk |-> NoChunk,
   req |-> NoRequest, resp |-> NoDownload, left |-> k, closes |-> c]

SourceSend(i) ==
  /\ i \in 1..Len(tailers)
  /\ tailers[i].kind = "source"
  /\ tailers[i].pc = "ready"
  /\ tailers[i].left > 0
  /\ tailers' = [tailers EXCEPT
                   ![i].pc = "emit",
                   ![i].chunk = [src |-> i, off |-> tailers[i].offset, len |-> 1],
                   ![i].offset = @ + 1,
                   ![i].left = @ - 1]
  /\ UNCHANGED <<inputVars, callVars, printed, mergeVars, consumerVars, crashed, gl>>

SourceClose(i) ==
  /\ i \in 1..Len(tailers)
  /\ tailers[i].kind = "source"
  /\ tailers[i].pc = "ready"
  /\ tailers[i].left = 0
  /\ tailers[i].closes
  /\ tailers' = [tailers EXCEPT ![i].pc = "closed"]
  /\ UNCHANGED <<inputVars, callVars, printed, mergeVars, consumerVars, crashed, gl>>

\* A closer goroutine that does not wait for the output goroutines.
MergeCloserEarly ==
  /\ ~crashed
  /\ ~outClosed
  /\ outClosed' = TRUE
  /\ UNCHANGED <<inputVars, callVars, tailVars, fwd, wg, consumerVars, crashed, gl>>

\* Lines 259-262: wg.Wait returns once every output goroutine is done, and
\* out is closed.
MergeCloser ==
  /\ ~crashed
  /\ Len(fwd) = Len(tailers)
  /\ wg = 0
  /\ ~outClosed
  /\ outClosed' = TRUE
  /\ UNCHANGED <<inputVars, callVars, tailVars, fwd, wg, consumerVars, crashed, gl>>

\* A receiver ranging over the merged channel takes a value from an output
\* goroutine blocked in its send.
MergeRecv ==
  /\ caller = "merge"
  /\ reading
  /\ \E i \in 1..Len(fwd) :
       /\ fwd[i].pc = "send"
       /\ delivered' = Deliver(delivered, fwd[i].val)
       /\ fwd' = [fwd EXCEPT ![i] = [pc |-> "recv", val |-> NoChunk]]
  /\ UNCHANGED <<inputVars, callVars, tailVars, wg, outClosed, reading, signal, tlPc,
                 crashed, gl>>

\* The receiver finds the merged channel closed and stops.
MergeRecvClosed ==
  /\ caller = "merge"
  /\ reading
  /\ outClosed
  /\ reading' = FALSE
  /\ UNCHANGED <<inputVars, callVars, tailVars, mergeVars, signal, delivered, tlPc,
                 crashed, gl>>

\* ------------------------------------------------------------ GetLog
NoGetLog == [pc |-> "start", group |-> <<>>, tasks |-> <<>>, idx |-> 0,
             result |-> <<>>, err |-> ""]

\* Lines 92-96: the group of findTask's result the options select.
getLogSelect(state, id, options) ==
  IF options.SearchCompletedTasks THEN findTask(state, id).CompletedTasks
  ELSE findTask(state, id).Tasks

\* SortTasksByLatestTimestamp.Less: a later latest status comes first, a
\* task without a status after those with one.
Less(a, b) ==
  /\ a.LastState # <<>>
  /\ (b.LastState = <<>> \/ a.LastState[1] > b.LastState[1])

\* sort.Sort is not stable: any ordering of the tasks that Less admits.
SortTasksByLatestTimestamp(tasks) ==
  {q \in {[i \in 1..Len(tasks) |-> tasks[p[i]]] : p \in Permutations(1..Len(tasks))} :
     \A i, j \in 1..Len(tasks) : i < j => ~Less(q[j], q[i])}

\* A GetLog that truncates before it looks at the length.
getLogTasksUnchecked(sorted, options) ==
  IF options.ShowLatestOnly
  THEN IF Len(sorted) = 0 THEN [err |-> "", panic |-> TRUE, tasks |-> <<>>]
       ELSE [err |-> "", panic |-> FALSE, tasks |-> SubSeq(sorted, 1, 1)]
  ELSE IF Len(sorted) = 0 THEN [err |-> "NotFound", panic |-> FALSE, tasks |-> <<>>]
       ELSE [err |-> "", panic |-> FALSE, tasks |-> sorted]

\* Lines 100-106 on the sorted group: the error for an empty group, else
\* the tasks to process; tasks[:1] of an empty slice would panic.
getLogTasks(sorted, options) ==
  IF Len(sorted) = 0 THEN [err |-> "NotFound", panic |-> FALSE, tasks |-> <<>>]
  ELSE IF options.ShowLatestOnly
       THEN [err |-> "", panic |-> FALSE, tasks |-> SubSeq(sorted, 1, 1)]
       ELSE [err |-> "", panic |-> FALSE, tasks |-> sorted]

\* Lines 92-106.
GetLogStart ==
  /\ ~crashed
  /\ gl.pc = "start"
  /\ \E sorted \in SortTasksByLatestTimestamp(getLogSelect(State, appID, Options)) :
       LET r == getLogTasks(sorted, Options) IN
       /\ crashed' = r.panic
       /\ gl' = [pc |-> IF r.panic THEN "panic"
                        ELSE IF r.err # "" THEN "returned" ELSE "loop",
                 group |-> sorted, tasks |-> r.tasks, idx |-> 1,
                 result |-> <<>>, err |-> r.err]
  /\ UNCHANGED <<inputVars, callVars, tailVars, mergeVars, consumerVars>>

\* Lines 108-125, one iteration: getSlaveInfo and download for the next
\* task (dir is empty: the log is returned, not written to a file).
GetLogStep ==
  /\ ~crashed
  /\ gl.pc = "loop"
  /\ gl.idx <= Len(gl.tasks)
  /\ LET task == gl.tasks[gl.idx]
         pre == slaveURLFor(State, task)
     IN  \E fetch \in Fetches(pre) :
         \E dlErr \in Downloaded(getSlaveInfo(State, Options, task, fetch)) :
           LET info == getSlaveInfo(State, Options, task, fetch) IN
           /\ fetched' = IF pre.err = "" THEN fetched \cup {pre.Host} ELSE fetched
           /\ gl' = IF info.err # ""
                    THEN [gl EXCEPT !.pc = "returned", !.err = info.err, !.result = <<>>]
                    ELSE IF dlErr
                    THEN [gl EXCEPT !.pc = "returned", !.err = "TransportError",
                                    !.result = <<>>]
                    ELSE [gl EXCEPT !.idx = @ + 1,
                                    !.result = Append(@, [TaskID |-> task.ID,
                                                          AppID |-> appID,
                                                          Directory |-> info.Directory])]
  /\ UNCHANGED <<inputVars, tlcPc, tlcTasks, tlcIdx, tlcResult, msg, tailVars,
                 mergeVars, consumerVars, crashed>>

\* Line 126.
GetLogReturn ==
  /\ ~crashed
  /\ gl.pc = "loop"
  /\ gl.idx > Len(gl.tasks)
  /\ gl' = [gl EXCEPT !.pc = "returned"]
  /\ UNCHANGED <<inputVars, callVars, tailVars, mergeVars, consumerVars, crashed>>

\* ------------------------------------------------------------ Spec
\* A call of TailLogToChannel, from TailLog or from a caller of its own, on
\* a cluster whose active tasks are instances of one application.
OneApp(pl) ==
  /\ \A i \in DOMAIN pl : pl[i] \in {<<0, "absent">>, <<1, "active">>}
  /\ \A i, j \in DOMAIN pl :
       pl[i][1] = 1 /\ pl[j][1] = 1 => Pool[i].Name = Pool[j].Name

TailStates ==
  {MkState(pl, sl) : pl \in {q \in [1..Len(Pool) -> Placements] : OneApp(q)},
                     sl \in SlaveLists}

Init ==
  /\ State \in TailStates
  /\ appID \in Idents
  /\ Options \in OptionSets
  /\ caller \in {"TailLog", "direct"}
  /\ probe = NoCall
  /\ tlcPc = "start"
  /\ tlcTasks = <<>>
  /\ tlcIdx = 0
  /\ tlcResult = ""
  /\ msg = NoChunk
  /\ fetched = {}
  /\ tailers = <<>>
  /\ printed = 0
  /\ fwd = <<>>
  /\ wg = 0
  /\ outClosed = FALSE
  /\ reading = TRUE
  /\ signal = "none"
  /\ delivered = <<>>
  /\ tlPc = "range"
  /\ gl = [NoGetLog EXCEPT !.pc = "idle"]
  /\ crashed = FALSE

Next ==
  \/ TLCStart
  \/ TLCResolve
  \/ TLCMerge
  \/ LoopRecv
  \/ LoopDone
  \/ ConsumerRecv
  \/ SignalDone
  \/ StopReading
  \/ TailLogRange
  \/ \E i \in 1..Len(Pool) : PollFail(i) \/ PollRead(i) \/ Wake(i) \/ Forward(i)

Spec == Init /\ [][Next]_vars

\* ------------------------------------------------------------ SpecMixed
\* A call of TailLogToChannel for application "a" on a cluster with two
\* active instances of it on one node, one with the id "a.u-1" and one
\* with an id that has no '-'.
T5 == [T4 EXCEPT !.Name = Name_A]

MixedState ==
  [Frameworks |-> [k \in 1..NumFrameworks |->
                    [ID |-> k,
                     Tasks |-> IF k = 1
                               THEN <<[T1 EXCEPT !.FrameworkID = 1],
                                      [T5 EXCEPT !.FrameworkID = 1]>>
                               ELSE <<>>,
                     CompletedTasks |-> <<>>]],
   Slaves |-> Slaves]

InitMixed ==
  /\ State = MixedState
  /\ appID = Name_A
  /\ Options \in OptionSets
  /\ caller \in {"TailLog", "direct"}
  /\ probe = NoCall
  /\ tlcPc = "start"
  /\ tlcTasks = <<>>
  /\ tlcIdx = 0
  /\ tlcResult = ""
  /\ msg = NoChunk
  /\ fetched = {}
  /\ tailers = <<>>
  /\ printed = 0
  /\ fwd = <<>>
  /\ wg = 0
  /\ outClosed = FALSE
  /\ reading = TRUE
  /\ signal = "none"
  /\ delivered = <<>>
  /\ tlPc = "range"
  /\ gl = [NoGetLog EXCEPT !.pc = "idle"]
  /\ crashed = FALSE

SpecMixed == InitMixed /\ [][Next]_vars

\* ------------------------------------------------------------ SpecMerge
\* merge called on its own with 0..MaxSources sources, each sending up to
\* MaxEmit chunks, and a receiver ranging over the merged channel.
Idle ==
  /\ State = MkState([i \in 1..Len(Pool) |-> <<0, "absent">>], Slaves)
  /\ appID = Name_None
  /\ Options = [SearchCompletedTasks |-> FALSE, ShowLatestOnly |-> FALSE]
  /\ probe = NoCall
  /\ tlcPc = "idle"
  /\ tlcTasks = <<>>
  /\ tlcIdx = 0
  /\ tlcResult = ""
  /\ msg = NoChunk
  /\ fetched = {}
  /\ printed = 0
  /\ outClosed = FALSE
  /\ reading = TRUE
  /\ signal = "none"
  /\ tlPc = "idle"
  /\ gl = [NoGetLog EXCEPT !.pc = "idle"]
  /\ crashed = FALSE

InitMerge ==
  /\ Idle
  /\ caller = "merge"
  /\ \E n \in 0..MaxSources :
       /\ tailers \in [1..n -> {source(k, c) : k \in 0..MaxEmit, c \in BOOLEAN}]
       /\ fwd = mergeStart(n)
       /\ wg = n
       /\ delivered = [i \in 1..n |-> <<>>]

NextMerge ==
  \/ MergeCloser
  \/ MergeRecv
  \/ MergeRecvClosed
  \/ \E i \in 1..MaxSources : SourceSend(i) \/ SourceClose(i) \/ Forward(i)

SpecMerge == InitMerge /\ [][NextMerge]_vars

\* The sources send what they have to send, the output goroutines and the
\* closer goroutine run, and the receiver keeps receiving.
FairMerge ==
  /\ SpecMerge
  /\ WF_vars(MergeRecv)
  /\ WF_vars(MergeCloser)
  /\ \A i \in 1..MaxSources : WF_vars(SourceSend(i)) /\ WF_vars(Forward(i))

\* ------------------------------------------------------------ SpecLocate
\* getSlaveInfo and findDirectory called on their own: any task of the model
\* in any framework, and node documents of one or two framework entries.
LocateTasks ==
  {[Pool[i] EXCEPT !.FrameworkID = k] : i \in 1..Len(Pool), k \in 1..NumFrameworks}

LocateEntries ==
  {[ID |-> f, Executors |-> ex, CompletedExecutors |-> cx] :
     f \in 1..NumFrameworks,
     ex \in ExecLists \cup {<<[ID |-> <<"e">>, Directory |-> <<>>], Exec(<<"e">>)>>},
     cx \in DoneLists}

LocateDocs ==
  {[Frameworks |-> <<a>>] : a \in LocateEntries}
  \cup {[Frameworks |-> <<a, b>>] : a, b \in LocateEntries}

LocateFetches == {NoFetch} \cup {[err |-> "", doc |-> d] : d \in LocateDocs}

\* The pieces of the model no call of a function on its own touches.
Unused ==
  /\ tlcPc = "idle"
  /\ tlcTasks = <<>>
  /\ tlcIdx = 0
  /\ tlcResult = ""
  /\ msg = NoChunk
  /\ fetched = {}
  /\ tailers = <<>>
  /\ printed = 0
  /\ fwd = <<>>
  /\ wg = 0
  /\ outClosed = FALSE
  /\ reading = TRUE
  /\ signal = "none"
  /\ delivered = <<>>
  /\ tlPc = "idle"
  /\ gl = [NoGetLog EXCEPT !.pc = "idle"]
  /\ crashed = FALSE

InitLocate ==
  /\ State \in {MkState([i \in 1..Len(Pool) |-> <<0, "absent">>], sl) : sl \in SlaveLists}
  /\ appID = Name_None
  /\ Options \in {o \in OptionSets : ~o.ShowLatestOnly}
  /\ caller = "getSlaveInfo"
  /\ probe = NoCall
  /\ Unused

\* c.getSlaveInfo(task): the node's document is requested only when a URL
\* was constructed.
CallGetSlaveInfo ==
  /\ probe = NoCall
  /\ \E task \in LocateTasks :
       LET pre == slaveURLFor(State, task) IN
       \E fetch \in (IF pre.err = "" THEN LocateFetches ELSE {NoFetch}) :
         /\ probe' = [fn |-> "getSlaveInfo", task |-> task, fetch |-> fetch,
                      completedTasks |-> Options.SearchCompletedTasks,
                      out |-> getSlaveInfo(State, Options, task, fetch)]
         /\ fetched' = IF pre.err = "" THEN fetched \cup {pre.Host} ELSE fetched
  /\ UNCHANGED <<clientVars, tlcPc, tlcTasks, tlcIdx, tlcResult, msg, tailVars,
                 mergeVars, consumerVars, gl, crashed>>

\* findDirectory(sstate, task, completedTasks).
CallFindDirectory ==
  /\ probe = NoCall
  /\ \E task \in LocateTasks, doc \in LocateDocs, completedTasks \in BOOLEAN :
       probe' = [fn |-> "findDirectory", task |-> task,
                 fetch |-> [err |-> "", doc |-> doc],
                 completedTasks |-> completedTasks,
                 out |-> findDirectory(doc, task, completedTasks)]
  /\ UNCHANGED <<clientVars, callVars, tailVars, mergeVars, consumerVars, gl, crashed>>

NextLocate == CallGetSlaveInfo \/ CallFindDirectory

SpecLocate == InitLocate /\ [][NextLocate]_vars

\* ------------------------------------------------------------ SpecDecorate
\* decorateLog called on its own on task ids with and without the two
\* separators and on every payload of up to MaxData characters.
DecorateNames ==
  {ID_A1, ID_A2, ID_NoDash, ID_NoDot,
   <<".", "-">>, <<"a", ".", "-">>, <<"a", "-", "b", ".", "c", "-", "d">>,
   <<"a", ".", "b", ".", "c", "-", "d", "-", "e">>, <<"a", "-", "b", ".">>}

RECURSIVE Texts(_)
Texts(n) ==
  IF n = 0 THEN {<<>>}
  ELSE LET shorter == Texts(n - 1)
       IN  shorter \cup {Append(t, c) : t \in {u \in shorter : Len(u) = n - 1},
                                        c \in {"x", "y", "\n"}}

InitDecorate ==
  /\ State = MkState([i \in 1..Len(Pool) |-> <<0, "absent">>], Slaves)
  /\ appID = Name_None
  /\ Options = [SearchCompletedTasks |-> FALSE, ShowLatestOnly |-> FALSE]
  /\ caller = "decorateLog"
  /\ probe = NoCall
  /\ Unused

CallDecorateLog ==
  /\ probe = NoCall
  /\ \E name \in DecorateNames, data \in Texts(MaxData) :
       probe' = [fn |-> "decorateLog", name |-> name, data |-> data,
                 out |-> decorateLog(name, data)]
  /\ UNCHANGED <<clientVars, callVars, tailVars, mergeVars, consumerVars, gl, crashed>>

NextDecorate == CallDecorateLog

SpecDecorate == InitDecorate /\ [][NextDecorate]_vars

\* ------------------------------------------------------------ SpecApps
\* GetAppNames on every cluster state of the model.
InitApps ==
  /\ State \in MasterStates
  /\ appID = Name_None
  /\ Options = [SearchCompletedTasks |-> FALSE, ShowLatestOnly |-> FALSE]
  /\ caller = "GetAppNames"
  /\ probe = NoCall
  /\ Unused

CallGetAppNames ==
  /\ probe = NoCall
  /\ probe' = [fn |-> "GetAppNames", out |-> GetAppNames(State)]
  /\ UNCHANGED <<clientVars, callVars, tailVars, mergeVars, consumerVars, gl, crashed>>

NextApps == CallGetAppNames

SpecApps == InitApps /\ [][NextApps]_vars

\* ------------------------------------------------------------ SpecResolve
\* GetLog on every cluster state, identifier and option setting of the model.
InitResolve ==
  /\ State \in MasterStates
  /\ appID \in Idents
  /\ Options \in OptionSets
  /\ caller = "GetLog"
  /\ probe = NoCall
  /\ tlcPc = "idle"
  /\ tlcTasks = <<>>
  /\ tlcIdx = 0
  /\ tlcResult = ""
  /\ msg = NoChunk
  /\ fetched = {}
  /\ tailers = <<>>
  /\ printed = 0
  /\ fwd = <<>>
  /\ wg = 0
  /\ outClosed = FALSE
  /\ reading = TRUE
  /\ signal = "none"
  /\ delivered = <<>>
  /\ tlPc = "idle"
  /\ gl = NoGetLog
  /\ crashed = FALSE

NextResolve == GetLogStart \/ GetLogStep \/ GetLogReturn

SpecResolve == InitResolve /\ [][NextResolve]_vars

\* Each goroutine is scheduled again and again: a step that stays possible
\* is eventually taken.
Fairness ==
  /\ WF_vars(TLCStart) /\ WF_vars(TLCResolve) /\ WF_vars(TLCMerge)
  /\ WF_vars(LoopRecv) /\ WF_vars(LoopDone)
  /\ WF_vars(ConsumerRecv) /\ WF_vars(TailLogRange)
  /\ \A i \in 1..Len(Pool) :
       WF_vars(PollRead(i)) /\ WF_vars(Wake(i)) /\ WF_vars(Forward(i))

FairSpec == Spec /\ Fairness

FairMixed == SpecMixed /\ Fairness

\* ------------------------------------------------------------ properties
Tailers == {i \in 1..Len(tailers) : tailers[i].kind = "tailer"}

\* Tailer i starts an iteration in this step and its download returns a
\* body: resp holds what came back.
Reads(i) ==
  /\ i \in Tailers
  /\ tailers[i].pc = "poll"
  /\ tailers'[i].resp # NoDownload

\* The chunk for the payload read in this step is handed to the tailer's
\* channel exactly once, and the offset has moved past the payload.
EmitsPayload(i) ==
  /\ tailers'[i].pc = "emit"
  /\ tailers'[i].chunk = [src |-> i, off |-> tailers[i].offset,
                          len |-> tailers'[i].resp.n]
  /\ tailers'[i].offset = tailers[i].offset + tailers'[i].resp.n

\* A tailer blocked in its send keeps its chunk and offset until the output
\* goroutine takes exactly that chunk; the tailer then polls at that offset.
SendOnce(i) ==
  (i \in Tailers /\ tailers[i].pc = "emit" /\ tailers'[i] # tailers[i]) =>
    /\ tailers'[i].pc = "poll"
    /\ tailers'[i].offset = tailers[i].offset
    /\ fwd[i].pc = "recv"
    /\ fwd'[i] = [pc |-> "send", val |-> tailers[i].chunk]

\* Every request a tailer issues asks for its current offset and PageLength.
RequestsOffset(i) ==
  Reads(i) =>
    /\ tailers'[i].req.offset = tailers[i].offset
    /\ tailers'[i].req.length = 5000
    /\ tailers'[i].req = TailRequest(tailers[i])

\* C1, as stated: every successful read at offset O that returns L >= 5
\* bytes makes the tailer emit exactly one chunk for the payload, and the
\* next request asks for offset O + L with page length 5000.
C1_EveryReadEmits ==
  [][\A i \in 1..Len(tailers) :
       /\ (Reads(i) /\ tailers'[i].resp.json /\ tailers'[i].resp.n >= 5)
            => EmitsPayload(i)
       /\ SendOnce(i)
       /\ RequestsOffset(i)]_vars

\* What the tailers do keep of C1: the same for every tailer whose task id
\* has a '.' followed later by a '-'.  On any other id decorateLog faults
\* after the offset was advanced and the process ends.
ReadEmitsUnlessFault ==
  [][\A i \in 1..Len(tailers) :
       /\ (Reads(i) /\ tailers'[i].resp.json /\ tailers'[i].resp.n >= 5
           /\ ~decorateLogPanics(tailers[i].ID))
            => EmitsPayload(i)
       /\ SendOnce(i)
       /\ RequestsOffset(i)]_vars

\* C2: a read at offset O that returns fewer than 5 bytes emits nothing,
\* leaves the offset at O, and after one sleep the tailer polls again with
\* the very request (offset O) it made before.
C2_ShortReadBacksOff ==
  [][\A i \in 1..Len(tailers) :
       /\ (Reads(i) /\ tailers'[i].resp.json /\ tailers'[i].resp.n < 5) =>
            /\ tailers'[i].pc = "sleep"
            /\ tailers'[i].offset = tailers[i].offset
            /\ tailers'[i].chunk = NoChunk
            /\ tailers'[i].req.offset = tailers[i].offset
            /\ fwd' = fwd
       /\ (i \in Tailers /\ tailers[i].pc = "sleep" /\ tailers'[i] # tailers[i]) =>
            /\ tailers'[i].pc = "poll"
            /\ tailers'[i].offset = tailers[i].offset
            /\ tailers'[i].chunk = NoChunk
            /\ TailRequest(tailers'[i]) = tailers[i].req
            /\ fwd' = fwd]_vars

\* A tailer sleeps after a short read at an offset it had advanced to.
C2_Witness ==
  \E i \in Tailers :
    /\ tailers[i].pc = "sleep"
    /\ tailers[i].resp.json
    /\ tailers[i].resp.n = 4
    /\ tailers[i].offset >= 5

\* The chunks source s has sent so far are each in exactly one place: still
\* held by the source blocked in its send, held by the output goroutine
\* blocked in its send, or received; those received are the source's first
\* chunks, in order, each once.
ExactlyOnce(s) ==
  LET atSource == IF tailers[s].pc = "emit" THEN 1 ELSE 0
      atOutput == IF s \in 1..Len(fwd) /\ fwd[s].pc = "send" THEN 1 ELSE 0
      n == Len(delivered[s])
  IN  /\ n + atOutput + atSource = tailers[s].offset
      /\ \A k \in 1..n : delivered[s][k] = [off |-> k - 1, len |-> 1]
      /\ atOutput = 1 => fwd[s].val = [src |-> s, off |-> n, len |-> 1]
      /\ atSource = 1 => tailers[s].chunk = [src |-> s, off |-> n + atOutput, len |-> 1]

AllDelivered(s) == tailers[s].left = 0 /\ Len(delivered[s]) = tailers[s].offset

\* C3: whatever the interleaving of the output goroutines, every chunk a
\* source sends into merge is received from the merged channel exactly
\* once, none lost and none duplicated, and a receiver that keeps receiving
\* ends up with all of them; in particular with two sources of one chunk each.
C3_MergeDeliversEachOnce ==
  /\ [](\A s \in 1..Len(tailers) : ExactlyOnce(s))
  /\ <>[](\A s \in 1..Len(tailers) : AllDelivered(s))

\* Two sources of one chunk each, and both chunks received.
C3_Witness ==
  /\ Len(tailers) = 2
  /\ \A s \in 1..2 :
       /\ tailers[s].kind = "source"
       /\ tailers[s].offset = 1 /\ tailers[s].left = 0
       /\ delivered[s] = <<[off |-> 0, len |-> 1]>>

\* C4: the chunks of one source reach the consumer in the order their
\* offsets were read: the first delivered chunk was read at offset 0 and
\* each next one at the offset where the one before ended, under every
\* interleaving with the other sources.
C4_SourceOrder ==
  \A s \in 1..Len(delivered) :
    \A k \in 1..Len(delivered[s]) :
      /\ delivered[s][k].len >= 5
      /\ delivered[s][k].off =
           IF k = 1 THEN 0 ELSE delivered[s][k - 1].off + delivered[s][k - 1].len

\* Two chunks of one source were delivered while another source delivered too.
C4_Witness ==
  \E s, r \in 1..Len(delivered) :
    s # r /\ Len(delivered[s]) >= 2 /\ Len(delivered[r]) >= 1

\* C5, as stated: once cancellation is signalled to a running forwarding
\* loop, the loop eventually takes the signal and returns (unless the
\* process has died), whatever the loop and the consumer are doing.
C5_CancelStopsLoop ==
  (signal = "pending" /\ tlcPc \in {"select", "send"})
    ~> (tlcResult = "nil" \/ crashed)

\* C6, as stated: when TailLogToChannel has returned an error, no tailer
\* goroutine has been started and nothing was sent to target.
C6_ErrorStartsNoTailer ==
  (tlcPc = "returned" /\ tlcResult \notin {"", "nil"}) =>
    /\ Len(tailers) = 0
    /\ \A s \in 1..Len(delivered) : delivered[s] = <<>>

\* TailLog's only return statement returns nil.
TailLogResult == "nil"

\* C7, as stated: for an identifier that matches no active task, TailLog
\* terminates and returns a non-nil error.
C7_TailLogNotFound ==
  (caller = "TailLog" /\ Len(findTask(State, appID).Tasks) = 0)
    ~> (tlPc = "returned" /\ TailLogResult # "nil")

\* C8, as stated: a failed read, be it a transport error or a body that
\* does not parse, is reported, and the tailer polls again at once at the
\* same offset: it does not sleep, stop, or emit.
C8_FailedReadRetriesAtOnce ==
  [][\A i \in 1..Len(tailers) :
       /\ (i \in Tailers /\ printed' # printed) =>
            /\ printed' = printed + 1
            /\ tailers' = tailers
       /\ (Reads(i) /\ ~tailers'[i].resp.json) =>
            /\ printed' = printed + 1
            /\ tailers'[i].pc = "poll"
            /\ tailers'[i].offset = tailers[i].offset
            /\ tailers'[i].chunk = NoChunk]_vars

\* ------------------------------------------------------------ resolution
SeqRange(q) == {q[i] : i \in 1..Len(q)}

\* The tasks listed in group g of any framework of the state that have the
\* identifier as their id or their name.
MatchingOf(state, id, g) ==
  {t \in UNION {SeqRange(IF g = "active" THEN state.Frameworks[k].Tasks
                         ELSE state.Frameworks[k].CompletedTasks) :
                  k \in 1..Len(state.Frameworks)} :
     t.ID = id \/ t.Name = id}

\* The sequence holds every task of the set once and nothing else (the
\* resolver fills in LastState, which the state's lists leave empty).
HoldsExactly(q, set) ==
  /\ {[t EXCEPT !.LastState = <<>>] : t \in SeqRange(q)} = set
  /\ Len(q) = Cardinality(set)

Mode == IF Options.SearchCompletedTasks THEN "completed" ELSE "active"
Resolved == gl.pc \in {"loop", "returned", "panic"}

\* C9, as stated: for an identifier that is the id or the name of some task
\* of the state, resolution returns a non-empty sequence holding exactly the
\* matching tasks of the selected group.
C9_PresentIdResolves ==
  (Resolved /\ \E g \in Groups : MatchingOf(State, appID, g) # {}) =>
    /\ gl.group # <<>>
    /\ HoldsExactly(gl.group, MatchingOf(State, appID, Mode))

\* C9, amended: findTask's active group holds exactly the matching tasks of
\* every framework's active list and its completed group those of every
\* completed list; GetLog keeps the group of the selected mode only, which
\* is non-empty exactly when a task of that mode matches, and an identifier
\* matching no task of that mode gets the NotFound error.
C9_SelectedGroupResolves ==
  Resolved =>
    /\ HoldsExactly(findTask(State, appID).Tasks, MatchingOf(State, appID, "active"))
    /\ HoldsExactly(findTask(State, appID).CompletedTasks,
                    MatchingOf(State, appID, "completed"))
    /\ HoldsExactly(gl.group, MatchingOf(State, appID, Mode))
    /\ MatchingOf(State, appID, Mode) # {} => gl.group # <<>> /\ gl.err # "NotFound"
    /\ MatchingOf(State, appID, Mode) = {} =>
         gl.group = <<>> /\ gl.err = "NotFound" /\ gl.pc = "returned"

\* An identifier given as a task id resolved to its task, or a name resolved
\* to two tasks of two frameworks.
C9_Witness ==
  /\ Resolved
  /\ \/ appID = ID_A1 /\ Len(gl.group) = 1 /\ gl.group[1].ID = ID_A1
     \/ /\ Len(gl.group) = 2
        /\ gl.group[1].FrameworkID # gl.group[2].FrameworkID
        /\ gl.group[1].Name = appID /\ gl.group[2].Name = appID

\* C10: with ShowLatestOnly, GetLog processes at most one task, the first
\* of the ordered group when there is one; an empty group gets the NotFound
\* error and no slice is taken of it.
C10_LatestOnlyTruncates ==
  (Resolved /\ Options.ShowLatestOnly) =>
    /\ Len(gl.tasks) <= 1
    /\ gl.group # <<>> => gl.tasks = <<gl.group[1]>> /\ gl.pc # "panic"
    /\ gl.group = <<>> =>
         gl.tasks = <<>> /\ gl.err = "NotFound" /\ gl.pc = "returned" /\ ~crashed
    /\ Len(gl.result) <= 1
    /\ \A k \in 1..Len(gl.result) : gl.result[k].TaskID = gl.group[1].ID

\* With ShowLatestOnly a group of two was cut to its first task, whose log
\* was fetched.
C10_Witness ==
  /\ Options.ShowLatestOnly
  /\ gl.pc = "returned"
  /\ Len(gl.group) = 2
  /\ Len(gl.tasks) = 1
  /\ Len(gl.result) = 1

\* ------------------------------------------------------------ location
\* The executors of the searched collection of the probed document that
\* belong to the task's framework and carry the task's executor id or id.
MatchingExecutors ==
  LET fws == probe.fetch.doc.Frameworks IN
  UNION {SeqRange(IF probe.completedTasks THEN fws[k].CompletedExecutors
                  ELSE fws[k].Executors) \cap
           {e \in SeqRange(fws[k].Executors) \cup SeqRange(fws[k].CompletedExecutors) :
              e.ID = probe.task.ExecutorID \/ e.ID = probe.task.ID} :
         k \in {j \in 1..Len(fws) : fws[j].ID = probe.task.FrameworkID}}

\* The nodes of the master state with the probed task's slave id.
NodesOfTask == {n \in SeqRange(State.Slaves) : n.ID = probe.task.SlaveID}

NoLocation == probe.out.Slave = NoSlave /\ probe.out.Directory = <<>>

\* C11: getSlaveInfo returns an error and no location when the task's node
\* is not in the master state (NodeNotFound), when the node's locator has
\* no '@' (MalformedAddress) and when no executor of the node's document
\* matches the task (DirectoryNotFound); in the first two cases the node's
\* document is not requested.
C11_GetSlaveInfoErrors ==
  probe.fn = "getSlaveInfo" =>
    LET located == \A n \in NodesOfTask : "@" \in SeqRange(n.Pid) IN
    /\ NodesOfTask = {} =>
         probe.out.err = "NodeNotFound" /\ NoLocation /\ fetched = {}
    /\ (NodesOfTask # {} /\ ~located) =>
         probe.out.err = "MalformedAddress" /\ NoLocation /\ fetched = {}
    /\ (NodesOfTask # {} /\ located) => fetched # {}
    /\ (NodesOfTask # {} /\ located /\ probe.fetch.err = "" /\ MatchingExecutors = {}) =>
         probe.out.err = "DirectoryNotFound" /\ NoLocation
    /\ probe.out.err # "" => NoLocation

\* getSlaveInfo failed on a fetched document whose framework entry for the
\* task lists executors, none of them the task's.
C11_Witness ==
  /\ probe.fn = "getSlaveInfo"
  /\ probe.out.err = "DirectoryNotFound"
  /\ fetched # {}
  /\ \E k \in 1..Len(probe.fetch.doc.Frameworks) :
       /\ probe.fetch.doc.Frameworks[k].ID = probe.task.FrameworkID
       /\ probe.fetch.doc.Frameworks[k].Executors # <<>>
       /\ ~probe.completedTasks

\* C12: findDirectory returns a directory only from an executor of the
\* task's framework whose id is the task's executor id or the task's id,
\* and the empty result when the searched collection has no such executor;
\* getSlaveInfo then fails and returns no part of a location, and when it
\* succeeds its location is whole.
C12_FindDirectoryExactMatch ==
  /\ probe.fn = "findDirectory" =>
       /\ probe.out # <<>> => \E e \in MatchingExecutors : e.Directory = probe.out
       /\ MatchingExecutors = {} => probe.out = <<>>
  /\ probe.fn = "getSlaveInfo" =>
       /\ (probe.fetch.err = "" /\ MatchingExecutors = {}) =>
            probe.out.err # "" /\ NoLocation
       /\ probe.out.err = "" =>
            /\ \E e \in MatchingExecutors : e.Directory = probe.out.Directory
            /\ probe.out.Directory # <<>>
            /\ probe.out.Slave \in NodesOfTask

\* findDirectory passed over an entry of another framework that lists the
\* task's executor and returned the directory from the task's framework.
C12_Witness ==
  /\ probe.fn = "findDirectory"
  /\ probe.out # <<>>
  /\ Len(probe.fetch.doc.Frameworks) = 2
  /\ probe.fetch.doc.Frameworks[1].ID # probe.task.FrameworkID
  /\ probe.fetch.doc.Frameworks[1].Executors # <<>>
  /\ probe.fetch.doc.Frameworks[1].CompletedExecutors # <<>>

\* ------------------------------------------------------------ decoration
\* The id has a '.' and a '-' somewhere after its first '.'.
WellFormedID(name) ==
  \E p, q \in 1..Len(name) : p < q /\ name[p] = "." /\ name[q] = "-"

\* "[<app>.<suffix>] " for an id <app>.<suffix>-<rest>, by the positions of
\* the first '.' and of the first '-' after it.
PrefixOf(name) ==
  LET p == CHOOSE i \in 1..Len(name) :
             name[i] = "." /\ \A j \in 1..(i - 1) : name[j] # "."
      q == CHOOSE i \in (p + 1)..Len(name) :
             name[i] = "-" /\ \A j \in (p + 1)..(i - 1) : name[j] # "-"
  IN  <<"[">> \o SubSeq(name, 1, p - 1) \o <<".">> \o SubSeq(name, p + 1, q - 1)
      \o <<"]", " ">>

\* The text read character by character from position k, cur being the
\* line read so far: every non-empty line with the prefix before it and a
\* newline after it.
RECURSIVE Decorated(_, _, _, _)
Decorated(data, prefix, k, cur) ==
  LET line == IF cur = <<>> THEN <<>> ELSE prefix \o cur \o <<"\n">> IN
  IF k > Len(data) THEN line
  ELSE IF data[k] = "\n" THEN line \o Decorated(data, prefix, k + 1, <<>>)
       ELSE Decorated(data, prefix, k + 1, Append(cur, data[k]))

\* C13: for a task id <app>.<suffix>-<rest> and any payload decorateLog
\* returns, in order, "[<app>.<suffix>] " + line + newline for every
\* non-empty newline-delimited line of the payload, and nothing for the
\* empty lines.
C13_DecorateLog ==
  /\ (probe.fn = "decorateLog" /\ WellFormedID(probe.name)) =>
       /\ ~probe.out.panic
       /\ probe.out.out = Decorated(probe.data, PrefixOf(probe.name), 1, <<>>)
  /\ probe.fn = "decorateLog" => probe.out.panic = decorateLogPanics(probe.name)

\* Two lines with an empty line between them, under an id with a '-'
\* before its first '.' too.
C13_Witness ==
  /\ probe.fn = "decorateLog"
  /\ probe.name = <<"a", "-", "b", ".", "c", "-", "d">>
  /\ probe.data = <<"x", "\n", "\n", "y">>
  /\ probe.out.out = <<"[", "a", "-", "b", ".", "c", "]", " ", "x", "\n",
                       "[", "a", "-", "b", ".", "c", "]", " ", "y", "\n">>

\* ------------------------------------------------------------ application names
\* The places <<framework, position>> of the active task lists of the state.
ActivePlaces ==
  {<<k, i>> \in (1..Len(State.Frameworks)) \X (1..Len(Pool)) :
     i <= Len(State.Frameworks[k].Tasks)}

ActiveNames == {State.Frameworks[pl[1]].Tasks[pl[2]].Name : pl \in ActivePlaces}

\* C14: GetAppNames returns for every distinct name of an active task the
\* number of active task instances of all frameworks with that name,
\* counts no completed task, and fails exactly when that map is empty.
C14_GetAppNamesCounts ==
  probe.fn = "GetAppNames" =>
    /\ probe.out.err # "" <=> ActiveNames = {}
    /\ DOMAIN probe.out.apps = ActiveNames
    /\ \A n \in ActiveNames :
         probe.out.apps[n] =
           Cardinality({pl \in ActivePlaces :
                          State.Frameworks[pl[1]].Tasks[pl[2]].Name = n})

\* Two instances of one name in two frameworks counted as 2, while tasks
\* of another name are listed as completed only.
C14_Witness ==
  /\ probe.fn = "GetAppNames"
  /\ DOMAIN probe.out.apps = {Name_A}
  /\ probe.out.apps[Name_A] = 2
  /\ \A k \in 1..2 : Len(State.Frameworks[k].Tasks) = 1
  /\ \E k \in 1..Len(State.Frameworks) : State.Frameworks[k].CompletedTasks # <<>>

\* ------------------------------------------------------------ in flight
RECURSIVE SumLen(_)
SumLen(q) == IF q = <<>> THEN 0 ELSE Head(q).len + SumLen(Tail(q))

\* Chunks of source s that were read (the offset is past them) and are held
\* by the tailer, blocked in its send or stopped by the fault of
\* decorateLog, or by the output goroutine blocked in its send.
AtTailer(s) == IF tailers[s].pc \in {"emit", "panic"} THEN 1 ELSE 0
AtOutput(s) == IF s \in 1..Len(fwd) /\ fwd[s].pc = "send" THEN 1 ELSE 0

\* The bytes of source s past which its offset has moved are, each once,
\* with the consumer, in the loop's msg, with the output goroutine or with
\* the tailer.
Accounted(s) ==
  tailers[s].offset =
    (IF s \in 1..Len(delivered) THEN SumLen(delivered[s]) ELSE 0)
    + (IF msg.src = s THEN msg.len ELSE 0)
    + (IF AtOutput(s) = 1 THEN fwd[s].val.len ELSE 0)
    + (IF tailers[s].pc = "emit" THEN tailers[s].chunk.len
       ELSE IF tailers[s].pc = "panic" THEN tailers[s].resp.n ELSE 0)

\* C15, as stated: for each source at most one chunk has been read and not
\* yet been handed to the loop of TailLogToChannel.
C15_OneInFlight ==
  \A s \in Tailers : AtTailer(s) + AtOutput(s) <= 1

\* C15, amended: for each source at most two chunks have been read and not
\* yet been handed to the loop, one held by the tailer and one by its
\* output goroutine, and no byte read is anywhere else than with these two,
\* in the loop's msg or with the consumer.
C15_TwoInFlight ==
  \A s \in Tailers :
    /\ AtTailer(s) + AtOutput(s) <= 2
    /\ Accounted(s)
    /\ AtOutput(s) = 1 => fwd[s].val.src = s /\ fwd[s].val.len >= 5
    /\ tailers[s].pc = "emit" =>
         /\ tailers[s].chunk.src = s
         /\ tailers[s].chunk.off + tailers[s].chunk.len = tailers[s].offset
    /\ (AtOutput(s) = 1 /\ tailers[s].pc = "emit") =>
         fwd[s].val.off + fwd[s].val.len = tailers[s].chunk.off

\* A tailer blocked sending its second chunk while its output goroutine is
\* blocked sending the first.
C15_Witness ==
  \E s \in Tailers :
    /\ tailers[s].pc = "emit"
    /\ AtOutput(s) = 1
    /\ fwd[s].val.off = 0
    /\ tailers[s].chunk.off = fwd[s].val.len

\* ------------------------------------------------------------ completion
\* C16, as stated: whatever the number of sources, none included, the
\* channel merge returns is never closed when no source closes its own,
\* and the receiver never finds it closed.
C16_MergeNeverCloses ==
  (caller = "merge" /\ \A s \in 1..Len(tailers) : ~tailers[s].closes) =>
    ~outClosed /\ reading

\* C16, amended: the channel merge returns is closed only when every
\* source has closed its channel and everything sent was received, hence
\* never while a source keeps its channel open; merge called with no
\* sources closes it once the closer goroutine runs, and only then does
\* the receiver find it closed.
C16_ClosedOnceAllSourcesClosed ==
  /\ [](caller = "merge" =>
        /\ outClosed =>
             /\ wg = 0
             /\ \A s \in 1..Len(tailers) :
                  /\ tailers[s].closes /\ tailers[s].pc = "closed"
                  /\ fwd[s].pc = "done"
                  /\ AllDelivered(s)
        /\ (\E s \in 1..Len(tailers) : ~tailers[s].closes) => ~outClosed
        /\ ~reading => outClosed)
  /\ (caller = "merge" /\ Len(tailers) = 0) ~> outClosed

\* merge was called with no sources, has closed its channel, and the
\* receiver has found it closed.
C16_Witness ==
  /\ caller = "merge"
  /\ Len(tailers) = 0
  /\ outClosed
  /\ ~reading

\* ------------------------------------------------------------ fault
\* C18: when a tailer receives at least 5 bytes for a task whose id lacks
\* a '.' or a '-' after its first '.', decorateLog faults: the offset has
\* been moved past the payload, no chunk is emitted for it, and nothing
\* happens after the fault.
C18_DecorateFaultLosesChunk ==
  [][/\ \A i \in 1..Len(tailers) :
          (Reads(i) /\ tailers'[i].resp.json /\ tailers'[i].resp.n >= 5
           /\ ~WellFormedID(tailers[i].ID)) =>
            /\ tailers'[i].pc = "panic"
            /\ crashed'
            /\ tailers'[i].offset = tailers[i].offset + tailers'[i].resp.n
            /\ tailers'[i].chunk = NoChunk
            /\ fwd' = fwd /\ msg' = msg /\ delivered' = delivered
     /\ crashed => UNCHANGED vars
     /\ crashed' => \E i \in 1..Len(tailers') :
                      tailers'[i].pc = "panic" /\ ~WellFormedID(tailers'[i].ID)]_vars

\* The tailer of a task with id "a.w" has faulted on its first payload,
\* with its offset past the payload and nothing delivered.
C18_Witness ==
  /\ crashed
  /\ \E i \in Tailers :
       /\ tailers[i].pc = "panic"
       /\ tailers[i].ID = ID_NoDash
       /\ tailers[i].resp.n >= 5
       /\ tailers[i].offset = tailers[i].resp.n
       /\ \A s \in 1..Len(delivered) : delivered[s] = <<>>

\* ------------------------------------------------------------ selection mode
\* The sandbox directories of the running and of the completed executors
\* the node documents list.
RunningDirs == UNION {{e.Directory : e \in SeqRange(l)} : l \in ExecLists}
CompletedDirs == UNION {{e.Directory : e \in SeqRange(l)} : l \in DoneLists}

\* C20, as stated: the executors searched are those of the mode of the task
\* group: TailLogToChannel takes the active group whatever the options are,
\* starts one tailer per task of it and resolves each against the running
\* executors; GetLog resolves the group of its mode against the executors
\* of that mode.
C20_SameModeAsGroup ==
  /\ tlcPc \in {"resolve", "merge", "select", "send"} =>
       tlcTasks = findTask(State, appID).Tasks
  /\ tlcPc \in {"merge", "select", "send"} =>
       /\ Len(tailers) = Len(tlcTasks)
       /\ \A i \in 1..Len(tailers) : tailers[i].ID = tlcTasks[i].ID
  /\ \A i \in Tailers : tailers[i].Directory \in RunningDirs
  /\ \A k \in 1..Len(gl.result) :
       gl.result[k].Directory \in
         (IF Options.SearchCompletedTasks THEN CompletedDirs ELSE RunningDirs)

\* ------------------------------------------------------------ independence
\* Tailer i, one of two or more, has emitted chunks that the consumer has
\* not all received.
Owed(i) ==
  /\ Len(tailers) >= 2
  /\ i \in Tailers
  /\ tailers[i].offset - (IF tailers[i].pc = "panic" THEN tailers[i].resp.n ELSE 0)
       > (IF i \in 1..Len(delivered) THEN SumLen(delivered[i]) ELSE 0)

\* C17, as stated: with two or more sources and a consumer that keeps
\* receiving (it has sent no stop signal), the chunks one source has
\* emitted are eventually all delivered, whatever the other sources do.
C17_DeliveryIndependent ==
  \A i \in 1..Len(Pool) : Owed(i) ~> (~Owed(i) \/ signal # "none")

\* What remains of C17: the chunks are delivered unless the consumer stops
\* or the fault of decorateLog in another tailer ends the process.
DeliveredUnlessFault ==
  \A i \in 1..Len(Pool) : Owed(i) ~> (~Owed(i) \/ signal # "none" \/ crashed)

\* ------------------------------------------------------------ after the return
\* The chunks of source i that were read and not handed to the loop.
InFlight(i) == AtTailer(i) + AtOutput(i)

\* After the return nothing reaches target, and goroutine i of the call
\* goes on: the tailer polls, sleeps or is blocked in its send, the output
\* goroutine waits for it or is blocked in its send.  Nothing takes a
\* chunk out of the merged channel any more, so every read that moves the
\* offset adds a chunk in flight, of which there are at most two: the
\* offset moves at most twice.
GoesOn(i) ==
  /\ tailers'[i].pc \in {"poll", "sleep", "emit"}
  /\ fwd'[i].pc \in {"recv", "send"}
  /\ InFlight(i)' >= InFlight(i)
  /\ InFlight(i)' <= 2
  /\ tailers'[i].offset # tailers[i].offset =>
       /\ tailers'[i].offset > tailers[i].offset
       /\ InFlight(i)' = InFlight(i) + 1

NothingForwarded ==
  /\ delivered' = delivered
  /\ msg' = msg
  /\ tlcPc' = "returned"
  /\ tlcResult' = "nil"
  /\ Len(tailers') = Len(tailers)
  /\ Len(fwd') = Len(tailers)

\* C19, as stated: once TailLogToChannel has returned on the stop signal,
\* no chunk is sent to target any more and no tailer or output goroutine
\* ever ends: each stays blocked in a send or keeps polling, and each
\* tailer moves its offset at most twice.
C19_LeakedGoroutinesRun ==
  [][tlcResult = "nil" =>
       /\ NothingForwarded
       /\ ~crashed'
       /\ \A i \in 1..Len(tailers) : GoesOn(i)]_vars

\* What remains of C19: the same as long as no tailer ends the process by
\* the fault of decorateLog.
LeakedUnlessFault ==
  [][(tlcResult = "nil" /\ ~crashed') =>
       /\ NothingForwarded
       /\ \A i \in 1..Len(tailers) : GoesOn(i)]_vars

====
